---- MODULE Spec2Model ----
(***************************************************************************)
(* A model of vscode-marketplace-client: the VSCodeMarketplaceService      *)
(* (gallery query, extension / version / asset resolution, streamed        *)
(* download) and the VSCodeMarketplaceClient facade in front of it.        *)
(*                                                                         *)
(* JavaScript values are modelled as follows.  A string is a TLA+ string;  *)
(* an optional argument is Undefined or Str(s); an object is a record; an  *)
(* array is a sequence (JavaScript index 0 is TLA+ index 1).  An awaited   *)
(* function is an operator that yields a completion: Return(v) or          *)
(* Throw(e).                                                               *)
(***************************************************************************)
EXTENDS Integers, Sequences, FiniteSets, TLC

VARIABLES
    pc,         \* pc[c]: where call c is suspended
    call,       \* call[c]: the operation invoked and its arguments
    locals,     \* locals[c]: the local constants of downloadExtensionVsix
    outcome,    \* outcome[c]: the state of the promise returned to the caller
    requests,   \* requests[c]: the HTTP requests call c has sent, in order
    received,   \* received[c]: the response objects call c holds, in order of arrival
    served,     \* served[c]: the responses the gallery sent to call c, as sent
    reader,     \* reader[c]: the response stream of the download GET
    writer,     \* writer[c]: the write stream created by downloadFile
    fs,         \* the file system: path -> content, for the files that exist
    now         \* the system clock: what `new Date()` reads

vars ==
    <<pc, call, locals, outcome, requests, received, served, reader, writer, fs, now>>

(***************************************************************************)
(* Bounds of the model.                                                    *)
(***************************************************************************)
MaxFlags == 3       \* longest flag list a caller passes
MaxVersions == 2    \* longest versions list in a gallery response
MaxBody == 2        \* longest body (in bytes) served at a download URL
MaxClock == 2       \* latest time the clock reaches

Calls == {"c1", "c2"}

(***************************************************************************)
(* JavaScript values.                                                      *)
(***************************************************************************)
Undefined == [kind |-> "undefined"]
Str(s) == [kind |-> "string", str |-> s]

\* v === undefined, where the code tests !v
IsUndefined(v) == v = Undefined

\* !v for an optional string argument: undefined and "" are falsy
Falsy(v) == v = Undefined \/ v.str = ""

Return(v) == [t |-> "return", value |-> v]
Throw(e) == [t |-> "throw", error |-> e]

\* the last element of an array, where the code takes the first
AtLast(seq) == IF Len(seq) = 0 THEN Undefined ELSE seq[Len(seq)]

\* seq[0] of a JavaScript array: undefined when the array is empty
At0(seq) == IF Len(seq) = 0 THEN Undefined ELSE seq[1]

\* what a TypeError "Cannot read properties of undefined" looks like to the caller
TypeError ==
    [name |-> "TypeError", message |-> <<"Cannot read properties of undefined">>,
     kinds |-> {"TypeError", "Error"}]

\* the rejection of axios.post / axios.get (network error, timeout, non-2xx status)
AxiosError ==
    [name |-> "AxiosError", message |-> <<"Request failed">>,
     kinds |-> {"AxiosError", "Error"}]

\* the error a write stream emits (open failure, disk full, ...)
WriteError == [name |-> "Error", message |-> <<"write failed">>, kinds |-> {"Error"}]

(***************************************************************************)
(* errors/: a template literal is the sequence of its parts; `kinds` holds *)
(* the classes of the error's prototype chain (what instanceof tests).     *)
(***************************************************************************)
\* error instanceof kind
InstanceOf(error, kind) == kind \in error.kinds

\* new VSCodeExtensionError(message, errorCode)
VSCodeExtensionError(message, errorCode) ==
    [name |-> "VSCodeExtensionError",
     message |-> message,
     kinds |-> {"VSCodeExtensionError", "Error"},
     timestamp |-> now,
     errorCode |-> errorCode]

\* a subclass whose constructor leaves the name the base class set
VersionNotFoundErrorUnnamed(extensionId, version) ==
    [VSCodeExtensionError(<<"Version \"", version, "\" for extension \"", extensionId,
                            "\" not found.">>, Undefined)
        EXCEPT !.kinds = @ \cup {"VersionNotFoundError"}]

ExtensionNotFoundError(extensionId) ==
    [VSCodeExtensionError(<<"Extension \"", extensionId, "\" not found.">>, Undefined)
        EXCEPT !.name = "ExtensionNotFoundError",
               !.kinds = @ \cup {"ExtensionNotFoundError"}]

VersionNotFoundError(extensionId, version) ==
    [VSCodeExtensionError(<<"Version \"", version, "\" for extension \"", extensionId,
                            "\" not found.">>, Undefined)
        EXCEPT !.name = "VersionNotFoundError",
               !.kinds = @ \cup {"VersionNotFoundError"}]

VsixFileNotFoundError(extensionId) ==
    [VSCodeExtensionError(<<"VSIX file for extension \"", extensionId, "\" not found.">>,
                          Undefined)
        EXCEPT !.name = "VsixFileNotFoundError",
               !.kinds = @ \cup {"VsixFileNotFoundError"}]

(***************************************************************************)
(* types/query-flag.ts and the flag encoding of fetchExtensionData.        *)
(***************************************************************************)
\* the recognized flag values the model's callers pass (a subset of QueryFlag)
QueryFlag == {0, 1, 2, 256, 16863}

\* a + b, where the code combines with |
BitOrAsSum(a, b) == a + b

\* a | b for operands in 0 .. 2^31 - 1, where ToInt32 is the identity
RECURSIVE BitOr(_, _)
BitOr(a, b) ==
    IF a = 0 THEN b
    ELSE IF b = 0 THEN a
    ELSE (IF a % 2 = 1 \/ b % 2 = 1 THEN 1 ELSE 0) + 2 * BitOr(a \div 2, b \div 2)

\* flags.reduce((acc, flag) => acc | flag, 0)
RECURSIVE ReduceFrom(_, _, _)
ReduceFrom(flags, i, acc) ==
    IF i > Len(flags) THEN acc
    ELSE ReduceFrom(flags, i + 1, BitOr(acc, flags[i]))

EncodeFlags(flags) == ReduceFrom(flags, 1, 0)

(***************************************************************************)
(* path.join (POSIX): the arguments are joined with "/" and the result is  *)
(* normalized ("." and empty segments dropped, ".." resolved).             *)
(***************************************************************************)
\* the "/"-separated segments of s
RECURSIVE SplitFrom(_, _, _)
SplitFrom(s, i, cur) ==
    IF i > Len(s) THEN <<cur>>
    ELSE IF SubSeq(s, i, i) = "/" THEN <<cur>> \o SplitFrom(s, i + 1, "")
    ELSE SplitFrom(s, i + 1, cur \o SubSeq(s, i, i))

RECURSIVE NormalizeFrom(_, _, _, _)
NormalizeFrom(segs, i, acc, abs) ==
    IF i > Len(segs) THEN acc
    ELSE IF segs[i] = "" \/ segs[i] = "." THEN NormalizeFrom(segs, i + 1, acc, abs)
    ELSE IF segs[i] = ".." THEN
        IF Len(acc) > 0 /\ acc[Len(acc)] # ".."
        THEN NormalizeFrom(segs, i + 1, SubSeq(acc, 1, Len(acc) - 1), abs)
        ELSE IF abs THEN NormalizeFrom(segs, i + 1, acc, abs)
        ELSE NormalizeFrom(segs, i + 1, Append(acc, ".."), abs)
    ELSE NormalizeFrom(segs, i + 1, Append(acc, segs[i]), abs)

RECURSIVE Glue(_, _)
Glue(segs, i) ==
    IF i > Len(segs) THEN ""
    ELSE IF i = Len(segs) THEN segs[i]
    ELSE segs[i] \o "/" \o Glue(segs, i + 1)

\* path.normalize of a path that does not end in "/"
Normalize(path) ==
    LET abs == Len(path) > 0 /\ SubSeq(path, 1, 1) = "/"
        segs == NormalizeFrom(SplitFrom(path, 1, ""), 1, <<>>, abs)
        body == Glue(segs, 1)
    IN  IF abs THEN "/" \o body
        ELSE IF body = "" THEN "."
        ELSE body

\* path.join(dir, name): zero-length arguments are ignored
Join(dir, name) ==
    IF dir = "" /\ name = "" THEN "."
    ELSE IF dir = "" THEN Normalize(name)
    ELSE IF name = "" THEN Normalize(dir)
    ELSE Normalize(dir \o "/" \o name)

\* the file name without the publisher
VsixFileNameShort(publisher, extension, version) ==
    extension \o "-" \o version \o ".vsix"

\* `${publisher}.${extension}-${extensionVersion.version}.vsix`
VsixFileName(publisher, extension, version) ==
    publisher \o "." \o extension \o "-" \o version \o ".vsix"

(***************************************************************************)
(* The gallery: the responses it may give to an extension query.           *)
(***************************************************************************)
VSIXPackage == "Microsoft.VisualStudio.Services.VSIXPackage"
VsixManifest == "Microsoft.VisualStudio.Services.VsixManifest"

UrlA == "https://cdn/a.vsix"
UrlB == "https://cdn/b.vsix"
UrlM == "https://cdn/manifest.xml"

FileManifest == [assetType |-> VsixManifest, source |-> UrlM]
FileVsixA == [assetType |-> VSIXPackage, source |-> UrlA]
FileVsixB == [assetType |-> VSIXPackage, source |-> UrlB]

\* ExtensionVersion: "1.2.3" is a proper prefix of "1.2.30"; only "1.2.3" has
\* a VSIX package, and it has two
V1230 == [version |-> "1.2.30", files |-> <<FileManifest>>]
V123 == [version |-> "1.2.3", files |-> <<FileManifest, FileVsixB, FileVsixA>>]

VersionEntries == {V1230, V123}

SeqsUpTo(S, n) == UNION {[1..k -> S] : k \in 0..n}

VersionLists == SeqsUpTo(VersionEntries, MaxVersions)

\* ExtensionInfo
Extension(publisherName, extensionName, versions) ==
    [publisher |-> [publisherName |-> publisherName],
     extensionName |-> extensionName,
     versions |-> versions]

OtherExtension == Extension("ms-python", "python", <<V1230>>)

GalleryExtensions == {Extension("ms-vscode", "cpptools", vl) : vl \in VersionLists}

ExtensionLists ==
    {<<>>}
    \cup {<<e>> : e \in GalleryExtensions}
    \cup {<<Extension("ms-vscode", "cpptools", <<V123>>), OtherExtension>>,
          <<OtherExtension, Extension("ms-vscode", "cpptools", <<V1230, V123>>)>>}

\* SearchResults
SearchResults(extensions) == [extensions |-> extensions]

\* the `results` field of a response body
Responses ==
    {<<>>}
    \cup {<<SearchResults(el)>> : el \in ExtensionLists}
    \cup {<<SearchResults(<<>>), SearchResults(<<OtherExtension>>)>>,
          <<SearchResults(<<Extension("ms-vscode", "cpptools", <<V123>>)>>),
            SearchResults(<<OtherExtension>>)>>}

\* the bodies a download URL may serve
Bytes == {1, 2}
Bodies == SeqsUpTo(Bytes, MaxBody)

(***************************************************************************)
(* VSCodeMarketplaceService: what each method does with the response of    *)
(* the one gallery query it makes.                                         *)
(***************************************************************************)
API_URL == "https://marketplace.visualstudio.com/_apis/public/gallery/extensionquery"

\* a query by extension name alone
PayloadByName(publisher, extension, flags) ==
    [method |-> "POST",
     url |-> API_URL,
     filters |-> <<[criteria |-> <<[filterType |-> 7, value |-> extension]>>]>>,
     flags |-> EncodeFlags(flags)]

\* fetchExtensionData: the POST request it sends
Payload(publisher, extension, flags) ==
    [method |-> "POST",
     url |-> API_URL,
     filters |-> <<[criteria |-> <<[filterType |-> 7,
                                    value |-> publisher \o "." \o extension]>>]>>,
     flags |-> EncodeFlags(flags)]

\* getExtensionInfo without the `extensions.length === 0` check
GetExtensionInfoUnchecked(results) ==
    IF Len(results) = 0 THEN Throw(TypeError)
    ELSE Return(At0(results[1].extensions))

\* getExtensionInfo returning the last extension instead of the first
GetExtensionInfoLast(results) ==
    IF Len(results) = 0 THEN Throw(TypeError)
    ELSE LET extensions == results[Len(results)].extensions
         IN  IF Len(extensions) = 0
             THEN Throw(ExtensionNotFoundError("Extension not found."))
             ELSE Return(extensions[Len(extensions)])

\* getExtensionInfo, from `const extensions = results[0].extensions` on
GetExtensionInfo(results) ==
    IF Len(results) = 0 THEN Throw(TypeError)
    ELSE LET extensions == results[1].extensions
         IN  IF Len(extensions) = 0
             THEN Throw(ExtensionNotFoundError("Extension not found."))
             ELSE Return(extensions[1])

\* v.version.startsWith(version), where the code compares with ===
VersionStartsWith(v, version) ==
    Len(v.version) >= Len(version) /\ SubSeq(v.version, 1, Len(version)) = version

\* v.version === version
VersionMatches(v, version) == v.version = version

\* extensionInfo.versions.find((v) => v.version === version): the first match,
\* or undefined
RECURSIVE FindVersionFrom(_, _, _)
FindVersionFrom(versions, version, i) ==
    IF i > Len(versions) THEN Undefined
    ELSE IF VersionMatches(versions[i], version) THEN versions[i]
    ELSE FindVersionFrom(versions, version, i + 1)

FindVersion(versions, version) == FindVersionFrom(versions, version, 1)

\* getExtensionVersion, after getExtensionInfo has returned extensionInfo
ResolveVersion(extensionInfo, version) ==
    IF Falsy(version) THEN Return(At0(extensionInfo.versions))
    ELSE LET foundVersion == FindVersion(extensionInfo.versions, version.str)
         IN  IF foundVersion = Undefined
             THEN Throw(VersionNotFoundError("Version not found.", version.str))
             ELSE Return(foundVersion)

\* getExtensionVersion reporting a missing extension as a missing version
GetExtensionVersionWrapping(results, version) ==
    LET info == GetExtensionInfo(results)
    IN  IF info.t = "throw"
        THEN Throw(VersionNotFoundError("Version not found.", "latest"))
        ELSE ResolveVersion(info.value, version)

GetExtensionVersion(results, version) ==
    LET info == GetExtensionInfo(results)
    IN  IF info.t = "throw" THEN info ELSE ResolveVersion(info.value, version)

\* getLatestVersion asking getExtensionVersion for a version named "latest"
GetLatestVersionByName(results) ==
    LET latestVersion == GetExtensionVersion(results, Str("latest"))
    IN  IF latestVersion.t = "throw" THEN latestVersion
        ELSE Return(latestVersion.value.version)

GetLatestVersion(results) ==
    LET latestVersion == GetExtensionVersion(results, Undefined)
    IN  IF latestVersion.t = "throw" THEN latestVersion
        ELSE IF latestVersion.value = Undefined THEN Throw(TypeError)
        ELSE Return(latestVersion.value.version)

\* a case-insensitive comparison of the asset type, where the code compares with ===
IsVsixAssetAnyCase(file) ==
    file.assetType \in {VSIXPackage, "Microsoft.VisualStudio.Services.VsixPackage",
                        VsixManifest}

\* file.assetType === 'Microsoft.VisualStudio.Services.VSIXPackage'
IsVsixAsset(file) == file.assetType = VSIXPackage

\* extensionVersion.files.find((file) => ...): the first match, or undefined
RECURSIVE FindVsixFrom(_, _)
FindVsixFrom(files, i) ==
    IF i > Len(files) THEN Undefined
    ELSE IF IsVsixAsset(files[i]) THEN files[i]
    ELSE FindVsixFrom(files, i + 1)

FindVsix(files) == FindVsixFrom(files, 1)

GetVsixDownloadUrl(results) ==
    LET extensionVersion == GetExtensionVersion(results, Undefined)
    IN  IF extensionVersion.t = "throw" THEN extensionVersion
        ELSE IF extensionVersion.value = Undefined THEN Throw(TypeError)
        ELSE LET vsixAsset == FindVsix(extensionVersion.value.files)
             IN  IF vsixAsset = Undefined
                 THEN Throw(VsixFileNotFoundError("VSIX file not found."))
                 ELSE Return(vsixAsset.source)

(***************************************************************************)
(* The calls a program makes through the facade, and their inputs.         *)
(***************************************************************************)
Identifiers == {<<"ms-vscode", "cpptools">>, <<"nonexistent", "invalid-extension">>}
FlagLists == SeqsUpTo(QueryFlag, MaxFlags)
VersionArgs == {Undefined, Str(""), Str("1.2.3"), Str("1.2.30"), Str("9.9.9")}
OutputDirs == {Undefined, Str("downloads"), Str("./out/")}
DownloadUrls == {UrlA, UrlB}
Destinations == {"ms-vscode.cpptools-1.2.30.vsix", "tmp/file.zip"}

\* a file that may exist before the program runs
OldPath == "ms-vscode.cpptools-1.2.30.vsix"
OldContent == <<9, 9, 9>>

NoFiles == [p \in {} |-> <<>>]

NoCall ==
    [op |-> "none", publisher |-> "", extension |-> "", flags |-> <<>>,
     version |-> Undefined, outputDir |-> Undefined, url |-> "", destination |-> ""]

NoLocals == [extensionVersion |-> Undefined, downloadUrl |-> "", filePath |-> ""]

Pending == [state |-> "pending"]
Resolved(v) == [state |-> "resolved", value |-> v]
Rejected(e) == [state |-> "rejected", error |-> e]

\* the promise of an async function settles with the completion of its body
Settle(completion) ==
    IF completion.t = "throw" THEN Rejected(completion.error)
    ELSE Resolved(completion.value)

NoReader == [state |-> "none", body |-> <<>>, pos |-> 0]
NoWriter == [state |-> "none", path |-> "", buf |-> <<>>, offset |-> 0, ending |-> FALSE]

Init ==
    /\ pc = [c \in Calls |-> "idle"]
    /\ call = [c \in Calls |-> NoCall]
    /\ locals = [c \in Calls |-> NoLocals]
    /\ outcome = [c \in Calls |-> Pending]
    /\ requests = [c \in Calls |-> <<>>]
    /\ received = [c \in Calls |-> <<>>]
    /\ served = [c \in Calls |-> <<>>]
    /\ reader = [c \in Calls |-> NoReader]
    /\ writer = [c \in Calls |-> NoWriter]
    /\ fs \in {NoFiles, [p \in {OldPath} |-> OldContent]}
    /\ now = 0

\* the name a new call gets: the first one free
NextCall == CHOOSE c \in Calls : pc[c] = "idle"

\* no call is in progress or has been made
Quiet == \A c \in Calls : pc[c] = "idle"

(***************************************************************************)
(* The facade operations: each runs up to its first await.                 *)
(***************************************************************************)
\* a call of op that starts with a gallery query and suspends at `at`
StartQuery(c, op, publisher, extension, flags, version, outputDir, at) ==
    /\ call' = [call EXCEPT ![c] =
                  [NoCall EXCEPT !.op = op, !.publisher = publisher,
                                 !.extension = extension, !.flags = flags,
                                 !.version = version, !.outputDir = outputDir]]
    /\ requests' = [requests EXCEPT ![c] = <<Payload(publisher, extension, flags)>>]
    /\ pc' = [pc EXCEPT ![c] = at]
    /\ UNCHANGED <<now, served, locals, outcome, received, reader, writer, fs>>

CallGetExtensionInfo(c) ==
    /\ pc[c] = "idle"
    /\ \E id \in Identifiers, flags \in FlagLists :
          StartQuery(c, "getExtensionInfo", id[1], id[2], flags,
                     Undefined, Undefined, "await_query")

\* the versions flag alone
VersionsOnlyFlags == <<1>>

\* the flags getExtensionVersion passes to getExtensionInfo
VersionFlags == <<1, 2>>

CallGetExtensionVersion(c) ==
    /\ pc[c] = "idle"
    /\ \E id \in Identifiers, version \in VersionArgs :
          StartQuery(c, "getExtensionVersion", id[1], id[2], VersionFlags,
                     version, Undefined, "await_query")

CallGetLatestVersion(c) ==
    /\ pc[c] = "idle"
    /\ \E id \in Identifiers :
          StartQuery(c, "getLatestVersion", id[1], id[2], VersionFlags,
                     Undefined, Undefined, "await_query")

CallGetVsixDownloadUrl(c) ==
    /\ pc[c] = "idle"
    /\ \E id \in Identifiers :
          StartQuery(c, "getVsixDownloadUrl", id[1], id[2], VersionFlags,
                     Undefined, Undefined, "await_query")

\* outputDir: string = '.'
DefaultDir(outputDir) == IF outputDir = Undefined THEN "." ELSE outputDir.str

CallDownloadExtensionVsix(c) ==
    /\ pc[c] = "idle"
    /\ \E id \in Identifiers, outputDir \in OutputDirs :
          StartQuery(c, "downloadExtensionVsix", id[1], id[2], VersionFlags,
                     Undefined, outputDir, "await_version")

\* axios.get(url, { responseType: 'stream' })
GetRequest(url) == [method |-> "GET", url |-> url]

\* the service's downloadFile, called directly
CallDownloadFile(c) ==
    /\ pc[c] = "idle"
    /\ \E url \in DownloadUrls, destination \in Destinations :
          /\ call' = [call EXCEPT ![c] =
                        [NoCall EXCEPT !.op = "downloadFile", !.url = url,
                                       !.destination = destination]]
          /\ requests' = [requests EXCEPT ![c] = <<GetRequest(url)>>]
          /\ locals' = [locals EXCEPT ![c] =
                          [NoLocals EXCEPT !.downloadUrl = url, !.filePath = destination]]
    /\ pc' = [pc EXCEPT ![c] = "await_get"]
    /\ UNCHANGED <<now, served, outcome, received, reader, writer, fs>>

(***************************************************************************)
(* The gallery answers a query: the call resumes after `await axios.post`. *)
(***************************************************************************)
\* the completion of the method a single-query operation wraps
QueryCompletion(cl, results) ==
    CASE cl.op = "getExtensionInfo" -> GetExtensionInfo(results)
      [] cl.op = "getExtensionVersion" -> GetExtensionVersion(results, cl.version)
      [] cl.op = "getLatestVersion" -> GetLatestVersion(results)
      [] cl.op = "getVsixDownloadUrl" -> GetVsixDownloadUrl(results)

\* the response object after `versions.shift()` took its latest version out
Shifted(results) ==
    IF Len(results) >= 1 /\ Len(results[1].extensions) >= 1
    THEN [results EXCEPT ![1].extensions[1].versions =
            IF @ = <<>> THEN @ ELSE Tail(@)]
    ELSE results

\* a handler that takes the latest version out of the list it was sent
QueryRespondShifting(c) ==
    /\ pc[c] = "await_query"
    /\ \E results \in Responses :
          /\ served' = [served EXCEPT ![c] = Append(@, results)]
          /\ received' = [received EXCEPT ![c] = Append(@, Shifted(results))]
          /\ outcome' = [outcome EXCEPT ![c] = Settle(QueryCompletion(call[c], results))]
    /\ pc' = [pc EXCEPT ![c] = "settled"]
    /\ UNCHANGED <<now, call, locals, requests, reader, writer, fs>>

\* a handler that takes the arguments from a field of the service that every
\* call in progress has written
QueryRespondShared(c) ==
    /\ pc[c] = "await_query"
    /\ \E results \in Responses, d \in Calls :
          /\ pc[d] # "idle"
          /\ served' = [served EXCEPT ![c] = Append(@, results)]
          /\ received' = [received EXCEPT ![c] = Append(@, results)]
          /\ outcome' = [outcome EXCEPT ![c] = Settle(QueryCompletion(call[d], results))]
    /\ pc' = [pc EXCEPT ![c] = "settled"]
    /\ UNCHANGED <<now, call, locals, requests, reader, writer, fs>>

QueryRespond(c) ==
    /\ pc[c] = "await_query"
    /\ \E results \in Responses :
          /\ served' = [served EXCEPT ![c] = Append(@, results)]
          /\ received' = [received EXCEPT ![c] = Append(@, results)]
          /\ outcome' = [outcome EXCEPT ![c] = Settle(QueryCompletion(call[c], results))]
    /\ pc' = [pc EXCEPT ![c] = "settled"]
    /\ UNCHANGED <<now, call, locals, requests, reader, writer, fs>>

\* downloadExtensionVsix: `const extensionVersion = await this.getExtensionVersion(...)`
VersionRespond(c) ==
    /\ pc[c] = "await_version"
    /\ \E results \in Responses :
        LET extensionVersion == GetExtensionVersion(results, Undefined)
        IN  /\ served' = [served EXCEPT ![c] = Append(@, results)]
            /\ received' = [received EXCEPT ![c] = Append(@, results)]
            /\ IF extensionVersion.t = "throw"
               THEN /\ outcome' = [outcome EXCEPT ![c] = Settle(extensionVersion)]
                    /\ pc' = [pc EXCEPT ![c] = "settled"]
                    /\ UNCHANGED <<locals, requests>>
               ELSE /\ locals' = [locals EXCEPT
                                    ![c].extensionVersion = extensionVersion.value]
                    /\ requests' = [requests EXCEPT ![c] =
                          Append(@, Payload(call[c].publisher, call[c].extension,
                                            VersionFlags))]
                    /\ pc' = [pc EXCEPT ![c] = "await_url"]
                    /\ UNCHANGED outcome
    /\ UNCHANGED <<now, call, reader, writer, fs>>

\* the version the file name is built from
FileVersion(lc) == lc.extensionVersion.version

\* join(outputDir, `${publisher}.${extension}-${extensionVersion.version}.vsix`)
FilePath(cl, lc) ==
    Join(DefaultDir(cl.outputDir), VsixFileName(cl.publisher, cl.extension, FileVersion(lc)))

\* downloadExtensionVsix: `const downloadUrl = await this.getVsixDownloadUrl(...)`,
\* then the file path is built and downloadFile runs up to `await axios.get`
UrlRespond(c) ==
    /\ pc[c] = "await_url"
    /\ \E results \in Responses :
        LET downloadUrl == GetVsixDownloadUrl(results)
        IN  /\ served' = [served EXCEPT ![c] = Append(@, results)]
            /\ received' = [received EXCEPT ![c] = Append(@, results)]
            /\ IF downloadUrl.t = "throw"
               THEN /\ outcome' = [outcome EXCEPT ![c] = Settle(downloadUrl)]
                    /\ pc' = [pc EXCEPT ![c] = "settled"]
                    /\ UNCHANGED <<locals, requests>>
               ELSE IF locals[c].extensionVersion = Undefined
               THEN /\ outcome' = [outcome EXCEPT ![c] = Rejected(TypeError)]
                    /\ pc' = [pc EXCEPT ![c] = "settled"]
                    /\ UNCHANGED <<locals, requests>>
               ELSE /\ locals' = [locals EXCEPT
                                    ![c].downloadUrl = downloadUrl.value,
                                    ![c].filePath = FilePath(call[c], locals[c])]
                    /\ requests' = [requests EXCEPT ![c] =
                                      Append(@, GetRequest(downloadUrl.value))]
                    /\ pc' = [pc EXCEPT ![c] = "await_get"]
                    /\ UNCHANGED outcome
    /\ UNCHANGED <<now, call, reader, writer, fs>>

\* a handler that reports a failed query as a missing extension
QueryFailConverted(c) ==
    /\ pc[c] \in {"await_query", "await_version", "await_url"}
    /\ outcome' = [outcome EXCEPT ![c] =
                     Rejected(ExtensionNotFoundError("Extension not found."))]
    /\ pc' = [pc EXCEPT ![c] = "settled"]
    /\ UNCHANGED <<now, served, call, locals, requests, received, reader, writer, fs>>

\* axios.post rejects: the failure propagates through every awaiting frame
QueryFail(c) ==
    /\ pc[c] \in {"await_query", "await_version", "await_url"}
    /\ outcome' = [outcome EXCEPT ![c] = Rejected(AxiosError)]
    /\ pc' = [pc EXCEPT ![c] = "settled"]
    /\ UNCHANGED <<now, served, call, locals, requests, received, reader, writer, fs>>

(***************************************************************************)
(* downloadFile: the GET response is piped into a write stream.            *)
(***************************************************************************)
\* `await axios.get` returns; createWriteStream(destination); the promise
\* executor pipes the response into the writer and registers its handlers
GetRespond(c) ==
    /\ pc[c] = "await_get"
    /\ \E body \in Bodies :
          reader' = [reader EXCEPT ![c] = [state |-> "flowing", body |-> body, pos |-> 0]]
    /\ writer' = [writer EXCEPT ![c] =
                    [NoWriter EXCEPT !.state = "opening", !.path = locals[c].filePath]]
    /\ pc' = [pc EXCEPT ![c] = "piping"]
    /\ UNCHANGED <<now, served, call, locals, outcome, requests, received, fs>>

\* axios.get rejects after the destination was opened for writing
GetFailAfterOpen(c) ==
    /\ pc[c] = "await_get"
    /\ outcome' = [outcome EXCEPT ![c] = Rejected(AxiosError)]
    /\ pc' = [pc EXCEPT ![c] = "settled"]
    /\ fs' = [p \in DOMAIN fs \cup {locals[c].filePath} |->
                IF p = locals[c].filePath THEN <<>> ELSE fs[p]]
    /\ UNCHANGED <<now, served, call, locals, requests, received, reader, writer>>

\* axios.get rejects
GetFail(c) ==
    /\ pc[c] = "await_get"
    /\ outcome' = [outcome EXCEPT ![c] = Rejected(AxiosError)]
    /\ pc' = [pc EXCEPT ![c] = "settled"]
    /\ UNCHANGED <<now, served, call, locals, requests, received, reader, writer, fs>>

\* the write stream opens its file with flag 'w': created or truncated
OpenFile(c) ==
    /\ writer[c].state = "opening"
    /\ fs' = [p \in DOMAIN fs \cup {writer[c].path} |->
                IF p = writer[c].path THEN <<>> ELSE fs[p]]
    /\ writer' = [writer EXCEPT ![c].state = "open"]
    /\ UNCHANGED <<now, served, pc, call, locals, outcome, requests, received, reader>>

\* the writer is still the destination of the pipe
Piped(c) == writer[c].state \in {"opening", "open"}

\* the response emits 'data': pipe hands the chunk to writer.write
ReaderData(c) ==
    /\ reader[c].state = "flowing"
    /\ Piped(c)
    /\ reader[c].pos < Len(reader[c].body)
    /\ reader' = [reader EXCEPT ![c].pos = @ + 1]
    /\ writer' = [writer EXCEPT ![c].buf = Append(@, reader[c].body[reader[c].pos + 1])]
    /\ UNCHANGED <<now, served, pc, call, locals, outcome, requests, received, fs>>

\* the response emits 'end': pipe calls writer.end()
ReaderEnd(c) ==
    /\ reader[c].state = "flowing"
    /\ Piped(c)
    /\ reader[c].pos = Len(reader[c].body)
    /\ reader' = [reader EXCEPT ![c].state = "ended"]
    /\ writer' = [writer EXCEPT ![c].ending = TRUE]
    /\ UNCHANGED <<now, served, pc, call, locals, outcome, requests, received, fs>>

\* the response emits 'error' (connection lost): no handler of downloadFile
\* listens for it, and pipe does not end the writer
ReaderError(c) ==
    /\ reader[c].state = "flowing"
    /\ Piped(c)
    /\ reader' = [reader EXCEPT ![c].state = "errored"]
    /\ UNCHANGED <<now, served, pc, call, locals, outcome, requests, received, writer, fs>>

\* content with byte written at offset off (a gap reads as 0)
WriteAt(content, off, byte) ==
    IF off < Len(content) THEN [content EXCEPT ![off + 1] = byte]
    ELSE content \o [i \in 1..(off - Len(content)) |-> 0] \o <<byte>>

\* the writer writes its oldest buffered chunk to the file
WriterWrite(c) ==
    /\ writer[c].state = "open"
    /\ writer[c].buf # <<>>
    /\ fs' = [fs EXCEPT ![writer[c].path] = WriteAt(@, writer[c].offset, Head(writer[c].buf))]
    /\ writer' = [writer EXCEPT ![c].buf = Tail(@), ![c].offset = @ + 1]
    /\ UNCHANGED <<now, served, pc, call, locals, outcome, requests, received, reader>>

\* 'finish' as soon as end() was called, chunks still buffered
FinishOnEnd(w) == w.state = "open" /\ w.ending

\* the writer may emit 'finish': end() was called and every chunk is written
FinishReady(w) == w.state = "open" /\ w.ending /\ w.buf = <<>>

\* writer.on('finish', () => resolve(destination))
WriterFinish(c) ==
    /\ FinishReady(writer[c])
    /\ writer' = [writer EXCEPT ![c].state = "finished"]
    /\ outcome' = [outcome EXCEPT ![c] =
                     IF @ = Pending THEN Resolved(writer[c].path) ELSE @]
    /\ pc' = [pc EXCEPT ![c] = "settled"]
    /\ UNCHANGED <<now, served, call, locals, requests, received, reader, fs>>

\* writer.on('error', reject): the open or a write fails
WriterError(c) ==
    /\ Piped(c)
    /\ writer' = [writer EXCEPT ![c].state = "errored", ![c].buf = <<>>]
    /\ outcome' = [outcome EXCEPT ![c] =
                     IF @ = Pending THEN Rejected(WriteError) ELSE @]
    /\ pc' = [pc EXCEPT ![c] = "settled"]
    /\ UNCHANGED <<now, served, call, locals, requests, received, reader, fs>>

\* time passes
Tick ==
    /\ now < MaxClock
    /\ now' = now + 1
    /\ UNCHANGED <<pc, call, locals, outcome, requests, received, served, reader, writer, fs>>

(***************************************************************************)
(* One call at a time; the clock stands still.                             *)
(***************************************************************************)
Next ==
    \/ Quiet /\ CallGetExtensionInfo(NextCall)
    \/ Quiet /\ CallGetExtensionVersion(NextCall)
    \/ Quiet /\ CallGetLatestVersion(NextCall)
    \/ Quiet /\ CallGetVsixDownloadUrl(NextCall)
    \/ Quiet /\ CallDownloadExtensionVsix(NextCall)
    \/ Quiet /\ CallDownloadFile(NextCall)
    \/ \E c \in Calls : QueryRespond(c)
    \/ \E c \in Calls : VersionRespond(c)
    \/ \E c \in Calls : UrlRespond(c)
    \/ \E c \in Calls : QueryFail(c)
    \/ \E c \in Calls : GetRespond(c)
    \/ \E c \in Calls : GetFail(c)
    \/ \E c \in Calls : OpenFile(c)
    \/ \E c \in Calls : ReaderData(c)
    \/ \E c \in Calls : ReaderEnd(c)
    \/ \E c \in Calls : ReaderError(c)
    \/ \E c \in Calls : WriterWrite(c)
    \/ \E c \in Calls : WriterFinish(c)
    \/ \E c \in Calls : WriterError(c)

Spec == Init /\ [][Next]_vars

(***************************************************************************)
(* One call at a time, up to the last point where it can raise an error of *)
(* errors/, while time passes.                                             *)
(***************************************************************************)
NextErrors ==
    \/ Quiet /\ CallGetExtensionInfo(NextCall)
    \/ Quiet /\ CallGetExtensionVersion(NextCall)
    \/ Quiet /\ CallGetLatestVersion(NextCall)
    \/ Quiet /\ CallGetVsixDownloadUrl(NextCall)
    \/ Quiet /\ CallDownloadExtensionVsix(NextCall)
    \/ \E c \in Calls : QueryRespond(c)
    \/ \E c \in Calls : VersionRespond(c)
    \/ \E c \in Calls : UrlRespond(c)
    \/ \E c \in Calls : QueryFail(c)
    \/ Tick

SpecErrors == Init /\ [][NextErrors]_vars

(***************************************************************************)
(* Query operations running concurrently on the one shared service: a call *)
(* may start while another awaits its response.                            *)
(***************************************************************************)
SomeIdle == \E c \in Calls : pc[c] = "idle"

\* the flag lists the concurrent callers pass
ConcurrentFlagLists == {<<>>, <<1, 2>>, <<256, 1>>}

NextQueries ==
    \/ /\ SomeIdle
       /\ CallGetExtensionInfo(NextCall)
       /\ call'[NextCall].flags \in ConcurrentFlagLists
    \/ SomeIdle /\ CallGetExtensionVersion(NextCall)
    \/ SomeIdle /\ CallGetLatestVersion(NextCall)
    \/ SomeIdle /\ CallGetVsixDownloadUrl(NextCall)
    \/ \E c \in Calls : QueryRespond(c)
    \/ \E c \in Calls : QueryFail(c)

SpecQueries == Init /\ [][NextQueries]_vars

(***************************************************************************)
(* Downloads running concurrently: a download may start while another is   *)
(* in flight.  The gallery lists one version of the extension, and no      *)
(* request or stream fails.                                                *)
(***************************************************************************)
\* the response the gallery gives while the downloads run
ConcurrentResponses ==
    {<<SearchResults(<<Extension("ms-vscode", "cpptools", <<V123>>)>>)>>}

\* the bodies served while the downloads run
ConcurrentBodies == {<<1>>, <<2, 1>>}

NextDownloads ==
    \/ /\ SomeIdle
       /\ CallDownloadExtensionVsix(NextCall)
       /\ call'[NextCall].publisher = "ms-vscode"
       /\ call'[NextCall].outputDir = Undefined
    \/ /\ SomeIdle
       /\ CallDownloadFile(NextCall)
       /\ call'[NextCall].url = UrlA
    \/ \E c \in Calls :
          VersionRespond(c) /\ received'[c][Len(received'[c])] \in ConcurrentResponses
    \/ \E c \in Calls :
          UrlRespond(c) /\ received'[c][Len(received'[c])] \in ConcurrentResponses
    \/ \E c \in Calls : GetRespond(c) /\ reader'[c].body \in ConcurrentBodies
    \/ \E c \in Calls : OpenFile(c)
    \/ \E c \in Calls : ReaderData(c)
    \/ \E c \in Calls : ReaderEnd(c)
    \/ \E c \in Calls : WriterWrite(c)
    \/ \E c \in Calls : WriterFinish(c)

SpecDownloads == Init /\ [][NextDownloads]_vars

(***************************************************************************)
(* One downloadFile call, its streams scheduled fairly: the event loop     *)
(* runs every stream callback that is due (the file opens, a buffered      *)
(* chunk is written, 'finish' is emitted), and the response stream goes on *)
(* until it has ended or errored.  No failure is bound to happen.          *)
(***************************************************************************)
NextDownloadFile ==
    \/ Quiet /\ CallDownloadFile(NextCall)
    \/ \E c \in Calls : GetRespond(c)
    \/ \E c \in Calls : GetFail(c)
    \/ \E c \in Calls : OpenFile(c)
    \/ \E c \in Calls : ReaderData(c)
    \/ \E c \in Calls : ReaderEnd(c)
    \/ \E c \in Calls : ReaderError(c)
    \/ \E c \in Calls : WriterWrite(c)
    \/ \E c \in Calls : WriterFinish(c)
    \/ \E c \in Calls : WriterError(c)

StreamsFair ==
    \A c \in Calls :
        /\ WF_vars(OpenFile(c))
        /\ WF_vars(ReaderData(c) \/ ReaderEnd(c) \/ ReaderError(c))
        /\ WF_vars(WriterWrite(c))
        /\ WF_vars(WriterFinish(c))

SpecDownloadFile == Init /\ [][NextDownloadFile]_vars /\ StreamsFair

(***************************************************************************)
(* Properties.                                                             *)
(***************************************************************************)
\* the gallery response call c received last
LastResults(c) == received[c][Len(received[c])]

\* the response has a first result set, and it holds no extension
ZeroExtensions(results) == Len(results) >= 1 /\ results[1].extensions = <<>>

\* the response has a first result set, and it holds an extension
SomeExtension(results) == Len(results) >= 1 /\ Len(results[1].extensions) >= 1

RejectedWith(c, name) ==
    outcome[c].state = "rejected" /\ outcome[c].error.name = name

\* C1: whatever the publisher, extension and flag list, when the response's
\* first result set holds zero extensions, getExtensionInfo rejects with
\* ExtensionNotFound; it does not resolve with a value.
C1_ZeroExtensionsRejects ==
    \A c \in Calls :
        (call[c].op = "getExtensionInfo" /\ received[c] # <<>>
            /\ ZeroExtensions(LastResults(c)))
        => RejectedWith(c, "ExtensionNotFoundError")

C1_Witness ==
    \E c \in Calls :
        /\ call[c].op = "getExtensionInfo"
        /\ call[c].flags = <<1, 256>>
        /\ received[c] = <<(<<SearchResults(<<>>)>>)>>
        /\ RejectedWith(c, "ExtensionNotFoundError")

\* C2: whatever the flag list, when the first result set holds at least one
\* extension, getExtensionInfo resolves with element 0 of results[0].extensions
\* unchanged (so its publisherName is the requested publisher whenever the
\* gallery answered with that publisher's extension); and whenever it resolves,
\* the value is that element, never a later element or one of a later result set.
C2_ReturnsFirstExtension ==
    \A c \in Calls :
        (call[c].op = "getExtensionInfo" /\ received[c] # <<>>)
        => LET results == LastResults(c)
           IN  /\ SomeExtension(results)
                    => /\ outcome[c] = Resolved(results[1].extensions[1])
                       /\ (results[1].extensions[1].publisher.publisherName
                              = call[c].publisher
                           => outcome[c].value.publisher.publisherName
                              = call[c].publisher)
               /\ outcome[c].state = "resolved" => SomeExtension(results)

C2_Witness ==
    \E c \in Calls :
        /\ call[c].op = "getExtensionInfo"
        /\ call[c].publisher = "ms-vscode"
        /\ received[c] # <<>>
        /\ Len(LastResults(c)) = 1
        /\ Len(LastResults(c)[1].extensions) = 2
        /\ LastResults(c)[1].extensions[2] = OtherExtension
        /\ outcome[c].state = "resolved"
        /\ outcome[c].value.publisher.publisherName = "ms-vscode"

\* the ExtensionInfo that getExtensionInfo resolved from call c's last response
ResolvedInfo(c) == LastResults(c)[1].extensions[1]

\* call c made its query and the response held an extension
HasInfo(c) == received[c] # <<>> /\ SomeExtension(LastResults(c))

\* C3: getExtensionVersion called with no version argument returns versions[0]
\* of the resolved ExtensionInfo, whatever the order of the version strings,
\* and getLatestVersion returns the version string of that entry.
C3_LatestIsFirstEntry ==
    \A c \in Calls :
        (HasInfo(c) /\ Len(ResolvedInfo(c).versions) >= 1)
        => /\ (call[c].op = "getExtensionVersion" /\ call[c].version = Undefined)
                => outcome[c] = Resolved(ResolvedInfo(c).versions[1])
           /\ call[c].op = "getLatestVersion"
                => outcome[c] = Resolved(ResolvedInfo(c).versions[1].version)

\* the list is not latest-first: "1.2.3" precedes "1.2.30"
C3_Witness ==
    \E c \in Calls :
        /\ call[c].op = "getExtensionVersion"
        /\ call[c].version = Undefined
        /\ HasInfo(c)
        /\ ResolvedInfo(c).versions = <<V123, V1230>>
        /\ outcome[c] = Resolved(V123)

\* the number of entries of versions whose version field equals s
Matches(versions, s) == {i \in DOMAIN versions : versions[i].version = s}

\* C4: getExtensionVersion called with a (non-empty) version argument that
\* equals the version field of exactly one entry returns that entry; the
\* entry it returns always has exactly the requested version string, never
\* one that merely starts with it.
C4_ExactVersionMatch ==
    \A c \in Calls :
        (call[c].op = "getExtensionVersion" /\ call[c].version # Undefined
            /\ call[c].version.str # "" /\ HasInfo(c))
        => LET versions == ResolvedInfo(c).versions
               s == call[c].version.str
           IN  /\ Cardinality(Matches(versions, s)) = 1
                    => outcome[c] = Resolved(versions[CHOOSE i \in Matches(versions, s) : TRUE])
               /\ outcome[c].state = "resolved" => outcome[c].value.version = s

\* "1.2.3" is requested and "1.2.30" comes first in the list
C4_Witness ==
    \E c \in Calls :
        /\ call[c].op = "getExtensionVersion"
        /\ call[c].version = Str("1.2.3")
        /\ HasInfo(c)
        /\ ResolvedInfo(c).versions = <<V1230, V123>>
        /\ outcome[c] = Resolved(V123)

\* the message of error e has s as one of its parts
Carries(e, s) == \E i \in DOMAIN e.message : e.message[i] = s

\* C5: for every (non-empty) version argument that equals no entry's version
\* field of an existing extension, getExtensionVersion rejects with
\* VersionNotFound, and the error carries the extension identity (publisher
\* and extension name) and the requested version string.
C5_VersionNotFoundCarriesIdentity ==
    \A c \in Calls :
        (call[c].op = "getExtensionVersion" /\ call[c].version # Undefined
            /\ call[c].version.str # "" /\ HasInfo(c)
            /\ Matches(ResolvedInfo(c).versions, call[c].version.str) = {})
        => /\ RejectedWith(c, "VersionNotFoundError")
           /\ Carries(outcome[c].error, call[c].version.str)
           /\ \/ Carries(outcome[c].error, call[c].publisher \o "." \o call[c].extension)
              \/ /\ Carries(outcome[c].error, call[c].publisher)
                 /\ Carries(outcome[c].error, call[c].extension)

\* the VSIX package entries of a file list
VsixEntries(files) == {i \in DOMAIN files : files[i].assetType = VSIXPackage}

\* the least element of a non-empty set of numbers
Least(S) == CHOOSE i \in S : \A j \in S : i <= j

\* C6: getVsixDownloadUrl returns the source of the (first) file entry of
\* versions[0] whose assetType is exactly the VSIX package type; when the
\* file list of versions[0] has no such entry it rejects with VsixFileNotFound.
C6_VsixUrlOfLatest ==
    \A c \in Calls :
        (call[c].op = "getVsixDownloadUrl" /\ HasInfo(c)
            /\ Len(ResolvedInfo(c).versions) >= 1)
        => LET files == ResolvedInfo(c).versions[1].files
           IN  IF VsixEntries(files) # {}
               THEN outcome[c] = Resolved(files[Least(VsixEntries(files))].source)
               ELSE RejectedWith(c, "VsixFileNotFoundError")

\* the package is not the first file of the latest version
C6_Witness ==
    \E c \in Calls :
        /\ call[c].op = "getVsixDownloadUrl"
        /\ HasInfo(c)
        /\ ResolvedInfo(c).versions = <<V123, V1230>>
        /\ V123.files[1].assetType # VSIXPackage
        /\ outcome[c] = Resolved(UrlB)

\* what path.join makes of each output directory the callers pass, as a prefix
DirPrefix(outputDir) ==
    CASE outputDir = Undefined -> ""
      [] outputDir = Str("downloads") -> "downloads/"
      [] outputDir = Str("./out/") -> "out/"

\* the version string the first resolution of call c resolved
FirstVersion(c) == received[c][1][1].extensions[1].versions[1].version

\* C7: when downloadExtensionVsix resolves, the destination it wrote is the
\* output directory (default ".") joined with
\* "<publisher>.<extension>-<version>.vsix", <version> being the latest version
\* string it resolved, and it resolves with that path.
C7_DownloadPath ==
    \A c \in Calls :
        (call[c].op = "downloadExtensionVsix" /\ outcome[c].state = "resolved")
        => LET path == DirPrefix(call[c].outputDir) \o call[c].publisher \o "."
                         \o call[c].extension \o "-" \o FirstVersion(c) \o ".vsix"
           IN  /\ writer[c].path = path
               /\ path \in DOMAIN fs
               /\ outcome[c].value = path

C7_Witness ==
    \E c \in Calls :
        /\ call[c].op = "downloadExtensionVsix"
        /\ call[c].outputDir = Str("./out/")
        /\ outcome[c] = Resolved("out/ms-vscode.cpptools-1.2.3.vsix")
        /\ "out/ms-vscode.cpptools-1.2.3.vsix" \in DOMAIN fs

\* call c is a download
IsDownload(c) == call[c].op \in {"downloadFile", "downloadExtensionVsix"}

\* C8: downloadFile resolves, with the destination path, only after the write
\* stream has finished, and then the destination file holds exactly the body
\* served at the URL, byte for byte and in order; it never resolves while a
\* byte is unread or unwritten.
C8_ResolvesAfterFinish ==
    \A c \in Calls :
        (IsDownload(c) /\ outcome[c].state = "resolved")
        => /\ writer[c].state = "finished"
           /\ writer[c].buf = <<>>
           /\ reader[c].pos = Len(reader[c].body)
           /\ outcome[c].value = writer[c].path
           /\ writer[c].path \in DOMAIN fs
           /\ fs[writer[c].path] = reader[c].body

\* a two-byte body has replaced the older, longer content of the file
C8_Witness ==
    \E c \in Calls :
        /\ call[c].op = "downloadFile"
        /\ call[c].destination = OldPath
        /\ outcome[c] = Resolved(OldPath)
        /\ reader[c].body = <<2, 1>>
        /\ fs[OldPath] = <<2, 1>>

FacadeOperations ==
    {"getExtensionInfo", "getExtensionVersion", "getLatestVersion",
     "getVsixDownloadUrl", "downloadExtensionVsix"}

Bit(n, i) == (n \div (2 ^ i)) % 2

\* the elements of a sequence
Range(seq) == {seq[i] : i \in DOMAIN seq}

\* C10: the flags value of a query in flight is the bitwise OR of the elements of
\* the caller's flag list: a non-negative integer whose bit i is set exactly
\* when some element has bit i set, so [] gives 0, [1,2] gives 3, [256] gives
\* 256 and [1,2,256] gives 259, and any list with the same elements, in any
\* order and with any repetition, gives the same value.
C10_FlagsAreBitwiseOr ==
    \A c \in Calls :
        (call[c].op = "getExtensionInfo" /\ pc[c] = "await_query")
        => LET flags == call[c].flags
               sent == requests[c][1].flags
           IN  /\ sent \in 0..65535
               /\ \A i \in 0..15 :
                     Bit(sent, i) = 1 <=> \E k \in DOMAIN flags : Bit(flags[k], i) = 1
               /\ flags = <<>> => sent = 0
               /\ flags = <<1, 2>> => sent = 3
               /\ flags = <<256>> => sent = 256
               /\ flags = <<1, 2, 256>> => sent = 259
               /\ \A other \in FlagLists :
                     Range(other) = Range(flags) => EncodeFlags(other) = sent

\* the elements overlap in their bits and come in descending order
C10_Witness ==
    \E c \in Calls :
        /\ call[c].op = "getExtensionInfo"
        /\ pc[c] = "await_query"
        /\ call[c].flags = <<16863, 256, 1>>
        /\ requests[c][1].flags = 16863

QueryOperations ==
    {"getExtensionInfo", "getExtensionVersion", "getLatestVersion", "getVsixDownloadUrl"}

TypedErrors == {"ExtensionNotFoundError", "VersionNotFoundError", "VsixFileNotFoundError"}

\* the extensions, version entries, version strings and file sources of a response
ExtensionsOf(results) ==
    UNION {Range(results[i].extensions) : i \in DOMAIN results}

EntriesOf(results) ==
    UNION {Range(e.versions) : e \in ExtensionsOf(results)}

ValuesOf(results) ==
    ExtensionsOf(results) \cup EntriesOf(results)
    \cup {Str(v.version) : v \in EntriesOf(results)}
    \cup UNION {{Str(f.source) : f \in Range(v.files)} : v \in EntriesOf(results)}

\* the value a query operation resolved with, strings wrapped as Str
ResolvedValue(c) ==
    IF call[c].op \in {"getLatestVersion", "getVsixDownloadUrl"}
    THEN Str(outcome[c].value) ELSE outcome[c].value

\* C11: for every gallery response (an extension with an empty versions list
\* and a response with an empty results list included), each of
\* getExtensionInfo, getExtensionVersion, getLatestVersion and
\* getVsixDownloadUrl either resolves with a value taken from the fetched
\* response or rejects with ExtensionNotFound, VersionNotFound or
\* VsixFileNotFound; none resolves with undefined.
C11_NeverResolvesEmpty ==
    \A c \in Calls :
        (call[c].op \in QueryOperations /\ received[c] # <<>>)
        => \/ /\ outcome[c].state = "resolved"
              /\ ResolvedValue(c) \in ValuesOf(LastResults(c))
           \/ /\ outcome[c].state = "rejected"
              /\ outcome[c].error.name \in TypedErrors

\* the failures that are no error of errors/
UntypedErrors == {TypeError, AxiosError, WriteError}

\* call c was rejected with an error the library constructed
RaisedByLibrary(c) ==
    outcome[c].state = "rejected" /\ outcome[c].error \notin UntypedErrors

\* what holds of every error the library has raised
C12_Kinds ==
    \A c \in Calls :
        RaisedByLibrary(c)
        => LET error == outcome[c].error
           IN  /\ error.name \in TypedErrors
               /\ InstanceOf(error, "VSCodeExtensionError")
               /\ InstanceOf(error, "Error")
               /\ \A kind \in TypedErrors : InstanceOf(error, kind) <=> kind = error.name
               /\ error.timestamp \in 0..now
               /\ error.errorCode = Undefined \/ error.errorCode \in Nat

\* the step that rejects a call with an error of the library stamps it with
\* the time of that step
C12_Stamped ==
    \A c \in Calls :
        (outcome[c] = Pending /\ outcome'[c].state = "rejected"
            /\ outcome'[c].error \notin UntypedErrors)
        => outcome'[c].error.timestamp = now

\* C12: every error the library raises (ExtensionNotFound, VersionNotFound,
\* VsixFileNotFound) is an instance of the one base kind VSCodeExtensionError,
\* carries the time of its construction as timestamp and an optional numeric
\* code, and is named after its own kind, of which alone among the three it
\* is an instance: a handler for the base kind catches all three and the
\* three stay distinguishable.
C12_ErrorTaxonomy == []C12_Kinds /\ [][C12_Stamped]_vars

\* a version error constructed at time 1, seen at time 2
C12_Witness ==
    \E c \in Calls :
        /\ RejectedWith(c, "VersionNotFoundError")
        /\ InstanceOf(outcome[c].error, "VSCodeExtensionError")
        /\ outcome[c].error.timestamp = 1
        /\ now = 2

\* C13: during a download, an error of the response read stream or of the
\* file write stream aborts the operation: as soon as either stream has
\* errored the promise is rejected, a write failure with the writer's error,
\* and it is never resolved with the destination path.
C13_StreamErrorRejects ==
    \A c \in Calls :
        IsDownload(c)
        => /\ reader[c].state = "errored" => outcome[c].state = "rejected"
           /\ writer[c].state = "errored" => outcome[c] = Rejected(WriteError)
           /\ (reader[c].state = "errored" \/ writer[c].state = "errored")
                => outcome[c].state # "resolved"

\* the entry the second resolution of call c (inside getVsixDownloadUrl) resolved
SecondVersion(c) == received[c][2][1].extensions[1].versions[1]

\* C14: in every execution of downloadExtensionVsix, also when the gallery's
\* version list changes between the two queries, both resolutions resolve the
\* same version: once the download request is sent, the version in the file
\* name is the version of the entry whose VSIX asset URL is downloaded, and
\* that URL is the URL of a VSIX asset of the entry the name was built from
\* (what a single resolution would download).
C14_ResolutionsAgree ==
    \A c \in Calls :
        (call[c].op = "downloadExtensionVsix" /\ Len(requests[c]) = 3)
        => /\ FileVersion(locals[c]) = SecondVersion(c).version
           /\ locals[c].extensionVersion = SecondVersion(c)
           /\ GetRequest(locals[c].downloadUrl) = requests[c][3]
           /\ \E i \in VsixEntries(locals[c].extensionVersion.files) :
                 locals[c].extensionVersion.files[i].source = locals[c].downloadUrl

\* C15: no operation changes the data fetched from the gallery: at every
\* point, also after an operation has returned or failed, each response object
\* a call holds is as the gallery sent it (extensions, versions and files),
\* and every entity a query operation has returned is an element of the
\* response it was resolved from.
C15_FetchedDataUnchanged ==
    \A c \in Calls :
        /\ received[c] = served[c]
        /\ (call[c].op \in QueryOperations /\ outcome[c].state = "resolved"
               /\ ResolvedValue(c) # Undefined)
            => ResolvedValue(c) \in ValuesOf(LastResults(c))

\* the second of two version entries was asked for and returned
C15_Witness ==
    \E c \in Calls :
        /\ call[c].op = "getExtensionVersion"
        /\ served[c] = <<(<<SearchResults(<<Extension("ms-vscode", "cpptools",
                                                      <<V1230, V123>>)>>)>>)>>
        /\ received[c] = served[c]
        /\ outcome[c] = Resolved(V123)
        /\ V123 \in EntriesOf(LastResults(c))

\* the gallery queries among the requests of call c
Queries(c) == {i \in DOMAIN requests[c] : requests[c][i].method = "POST"}

\* C16: every gallery query any operation issues goes to the gallery endpoint
\* and carries exactly one filter group with exactly one criterion, whose
\* filterType is 7 and whose value is "<publisher>.<extension>" of that call,
\* together with the encoded flags bitmask; no operation queries another
\* identifier than the one it was called with.
C16_QueryShape ==
    \A c \in Calls : \A i \in Queries(c) :
        LET query == requests[c][i]
        IN  /\ query.url = API_URL
            /\ Len(query.filters) = 1
            /\ Len(query.filters[1].criteria) = 1
            /\ query.filters[1].criteria[1].filterType = 7
            /\ query.filters[1].criteria[1].value
                  = call[c].publisher \o "." \o call[c].extension
            /\ query.flags =
                  (IF call[c].op = "getExtensionInfo"
                   THEN EncodeFlags(call[c].flags) ELSE 3)

\* both queries of a download name the extension the call was made for
C16_Witness ==
    \E c \in Calls :
        /\ call[c].op = "downloadExtensionVsix"
        /\ call[c].publisher = "ms-vscode"
        /\ call[c].extension = "cpptools"
        /\ Queries(c) = {1, 2}
        /\ requests[c][2].filters[1].criteria[1].value = "ms-vscode.cpptools"
        /\ Len(requests[c]) = 3

\* C17: whatever its arguments, every query made for getExtensionVersion,
\* getLatestVersion, getVsixDownloadUrl or downloadExtensionVsix carries the
\* encoding of the fixed flag list [1, 2], the bitmask 3; getExtensionInfo
\* alone sends the encoding of the flags its caller chose.
C17_FixedFlags ==
    \A c \in Calls : \A i \in Queries(c) :
        IF call[c].op = "getExtensionInfo"
        THEN requests[c][i].flags = EncodeFlags(call[c].flags)
        ELSE /\ requests[c][i].flags = 3
             /\ requests[c][i].flags = EncodeFlags(<<1, 2>>)

\* a version is asked for by its string: the query still carries 3
C17_Witness ==
    \E c \in Calls :
        /\ call[c].op = "getExtensionVersion"
        /\ call[c].version = Str("9.9.9")
        /\ Queries(c) = {1}
        /\ requests[c][1].flags = 3

\* the last gallery query of call c got no response and the call is over
QueryFailed(c) ==
    pc[c] = "settled" /\ Cardinality(Queries(c)) = Len(received[c]) + 1

\* C18: a transport failure of a gallery query is neither retried nor
\* converted: no query is sent again while it is unanswered, and the operation
\* whose query failed is rejected with the untyped transport failure, not with
\* an error of the library, the failed query being the last request it sent.
C18_NoRetryNoConversion ==
    \A c \in Calls :
        /\ Cardinality(Queries(c)) <= Len(received[c]) + 1
        /\ QueryFailed(c)
            => /\ outcome[c] = Rejected(AxiosError)
               /\ outcome[c].error.name \notin TypedErrors
               /\ ~InstanceOf(outcome[c].error, "VSCodeExtensionError")
               /\ Len(requests[c]) = Len(received[c]) + 1
               /\ requests[c][Len(requests[c])].method = "POST"

\* the second query of a download failed: no download request, no file
C18_Witness ==
    \E c \in Calls :
        /\ call[c].op = "downloadExtensionVsix"
        /\ QueryFailed(c)
        /\ Len(received[c]) = 1
        /\ Len(requests[c]) = 2
        /\ outcome[c] = Rejected(AxiosError)
        /\ fs = NoFiles

\* the outcome of a query operation that runs alone with the arguments of
\* call c and gets what call c got: a response, or a transport failure
AloneOutcome(c) ==
    IF received[c] = <<>> THEN Rejected(AxiosError)
    ELSE Settle(QueryCompletion(call[c], received[c][1]))

\* every call that is over has the outcome it would have had alone, and has
\* sent the one query for its own arguments
C19_OwnOutcome ==
    \A c \in Calls :
        /\ pc[c] # "idle"
            => requests[c] = <<Payload(call[c].publisher, call[c].extension,
                                       call[c].flags)>>
        /\ pc[c] = "await_query" => outcome[c] = Pending
        /\ pc[c] = "settled" => outcome[c] = AloneOutcome(c)

\* a step of one call leaves every other call as it was
C19_OwnState ==
    \A c, d \in Calls :
        (c # d /\ pc'[c] # pc[c])
        => /\ pc'[d] = pc[d]
           /\ call'[d] = call[d]
           /\ outcome'[d] = outcome[d]
           /\ requests'[d] = requests[d]
           /\ received'[d] = received[d]

\* C19: in every interleaving of query operations running concurrently on the
\* shared service instance, calls share no state: a step of one call changes
\* nothing of another, and the outcome of each call is a function of its own
\* arguments and of the response to its own request, the outcome it would
\* have if it ran alone against that response.
C19_CallsIndependent == []C19_OwnOutcome /\ [][C19_OwnState]_vars

\* the call started first still awaits its response; the second call was
\* started meanwhile and answered, with another extension's data
C19_Witness ==
    LET first == CHOOSE c \in Calls : TRUE
    IN  /\ pc[first] = "await_query"
        /\ call[first].op = "getExtensionVersion"
        /\ call[first].version = Str("1.2.3")
        /\ \E d \in Calls :
              /\ pc[d] = "settled"
              /\ call[d].op = "getLatestVersion"
              /\ call[d].publisher # call[first].publisher
              /\ outcome[d] = Resolved("1.2.30")

\* no two downloads in flight have the same destination
C20_OwnPath ==
    \A c, d \in Calls :
        (c # d /\ Piped(c) /\ Piped(d)) => writer[c].path # writer[d].path

\* the step that resolves a download leaves the bytes of its stream at its path
C20_OwnBytes ==
    \A c \in Calls :
        (outcome[c] = Pending /\ outcome'[c].state = "resolved")
        => fs'[writer'[c].path] = reader'[c].body

\* C20: each of the downloads running concurrently writes its own destination
\* file: in no interleaving do two downloadFile / downloadExtensionVsix calls
\* in flight write to the same path at the same time, so that a call, when it
\* resolves, leaves at its path exactly the bytes of its own stream.
C20_OwnDestination == []C20_OwnPath /\ [][C20_OwnBytes]_vars

\* C21: every downloadFile call whose GET request has returned a response
\* eventually settles: the streams going on until they end or error, the
\* promise is eventually resolved or rejected, whatever the stream events, an
\* error of the response stream before the writer finishes included.
C21_EventuallySettles ==
    \A c \in Calls : (pc[c] = "piping") ~> (outcome[c].state # "pending")

Downloads(c) == {i \in DOMAIN requests[c] : requests[c][i].method = "GET"}

\* both resolutions of a downloadExtensionVsix call have succeeded
Resolutions(c) ==
    /\ Len(received[c]) = 2
    /\ GetExtensionVersion(received[c][1], Undefined).t = "return"
    /\ GetVsixDownloadUrl(received[c][2]).t = "return"

\* a download request is sent, and a destination is opened, only by a call
\* whose earlier steps have all succeeded
C23_AfterSuccess ==
    \A c \in Calls :
        /\ (call[c].op = "downloadExtensionVsix" /\ Downloads(c) # {})
            => Downloads(c) = {3} /\ Resolutions(c)
        /\ writer[c].state # "none"
            => /\ Downloads(c) # {}
               /\ reader[c].state # "none"
               /\ call[c].op = "downloadExtensionVsix" => Resolutions(c)
        /\ (outcome[c].state = "rejected" /\ writer[c].state = "none")
            => \A p \in DOMAIN fs : p = OldPath /\ fs[p] = OldContent

\* a step changes the file system only for a call whose GET has returned a
\* response and whose writer is open or opening
C23_FilesKept ==
    fs' # fs => \E c \in Calls : reader[c].state # "none" /\ Piped(c)

\* C23: the destination file is created or truncated only after every earlier
\* step has succeeded: when downloadExtensionVsix fails in the version
\* resolution or in the VSIX lookup, or the download GET fails, no download
\* request follows the failed resolution, no file is created, and a file
\* already at the destination path is left as it was.
C23_FileOnlyAfterSuccess == []C23_AfterSuccess /\ [][C23_FilesKept]_vars

\* the GET for the file that is already there has failed: the file is intact
C23_Witness ==
    \E c \in Calls :
        /\ call[c].op = "downloadExtensionVsix"
        /\ locals[c].filePath = OldPath
        /\ Downloads(c) = {3}
        /\ outcome[c] = Rejected(AxiosError)
        /\ OldPath \in DOMAIN fs
        /\ fs[OldPath] = OldContent

\* C24: getExtensionVersion treats the version argument "" exactly like an
\* omitted one: whatever the response, its outcome is the outcome of the call
\* without a version argument; it returns versions[0], scans for no match
\* and never rejects with VersionNotFound.
C24_EmptyVersionIsOmitted ==
    \A c \in Calls :
        (call[c].op = "getExtensionVersion" /\ call[c].version = Str("")
            /\ received[c] # <<>>)
        => /\ outcome[c] = Settle(GetExtensionVersion(LastResults(c), Undefined))
           /\ ~RejectedWith(c, "VersionNotFoundError")
           /\ (HasInfo(c) /\ Len(ResolvedInfo(c).versions) >= 1)
                => outcome[c] = Resolved(ResolvedInfo(c).versions[1])

\* no entry has the version "", and the first entry is returned
C24_Witness ==
    \E c \in Calls :
        /\ call[c].op = "getExtensionVersion"
        /\ call[c].version = Str("")
        /\ HasInfo(c)
        /\ ResolvedInfo(c).versions = <<V1230, V123>>
        /\ Matches(ResolvedInfo(c).versions, "") = {}
        /\ outcome[c] = Resolved(V1230)

====
